---- MODULE Spec2Model ----
(***************************************************************************)
(* A model of the tensor Value layer of the ort crate:                     *)
(*   - shape validation (ToDimensions::to_dimensions, calculate_tensor_    *)
(*     size) as pure operators over machine integers of a scaled width,    *)
(*   - the downcast check (DowncastableTarget::can_downcast),              *)
(*   - the life of one tensor Value: construction from each data source,   *)
(*     aliasing (clone / upcast / upcast_ref / upcast_mut), drop, the      *)
(*     engine's handle and the caller's buffer,                            *)
(*   - string tensors (Tensor::from_string_array),                         *)
(*   - status pointers (Error::into_sys / consume_sys, status_to_result),  *)
(*   - the entry-point table (api(), lib_handle, dylib_path) and its       *)
(*     version gate,                                                       *)
(*   - access to a tensor's data (data_ptr, data_ptr_mut, indexing).       *)
(***************************************************************************)
EXTENDS Integers, Sequences, FiniteSets, TLC

(***************************************************************************)
(* Bounds of the model.                                                    *)
(***************************************************************************)
\* Width in bits of usize and i64 (64 in the build; scaled so that TLC can
\* enumerate every value).  i32 is modelled one bit narrower.
WordBits == 4
\* Longest shape given to to_dimensions.
MaxRank == 2
\* Longest data buffer a caller supplies.
MaxLen == 3

(***************************************************************************)
(* Machine integers.                                                       *)
(***************************************************************************)
UsizeModulus == 2 ^ WordBits
UsizeMax == UsizeModulus - 1
I64Max == 2 ^ (WordBits - 1) - 1
I64Min == -(2 ^ (WordBits - 1))
I32Max == 2 ^ (WordBits - 2) - 1
I32Min == -(2 ^ (WordBits - 2))

\* Every sequence over S of length at most n.
RECURSIVE SeqsUpTo(_, _)
SeqsUpTo(S, n) ==
    IF n = 0 THEN {<<>>}
    ELSE LET shorter == SeqsUpTo(S, n - 1)
         IN  shorter \cup {Append(s, x) : s \in {t \in shorter : Len(t) = n - 1}, x \in S}

DimKinds == {"usize", "i32", "i64"}

DimRange(kind) ==
    CASE kind = "usize" -> 0 .. UsizeMax
      [] kind = "i32" -> I32Min .. I32Max
      [] kind = "i64" -> I64Min .. I64Max

\* `*c as i64`: a usize is reinterpreted in two's complement, an i32 or an
\* i64 keeps its value.
as_i64(kind, c) ==
    IF kind = "usize" /\ c > I64Max THEN c - UsizeModulus ELSE c

\* Option<usize>: None is the empty sequence, Some(n) is <<n>>.
None == <<>>
Some(n) == <<n>>

(***************************************************************************)
(* calculate_tensor_size: the running product in usize.  A negative        *)
(* dimension returns 0 at once.  `size *= dim` overflows by panicking when *)
(* the build has overflow checks and by wrapping when it has not.          *)
(***************************************************************************)
RECURSIVE tensor_size_loop(_, _, _, _)
tensor_size_loop(shape, i, size, overflow_checks) ==
    IF i > Len(shape) THEN [panicked |-> FALSE, size |-> size]
    ELSE IF shape[i] < 0 THEN [panicked |-> FALSE, size |-> 0]
    ELSE IF size * shape[i] > UsizeMax /\ overflow_checks
         THEN [panicked |-> TRUE, size |-> 0]
    ELSE tensor_size_loop(shape, i + 1, (size * shape[i]) % UsizeModulus, overflow_checks)

calculate_tensor_size(shape, overflow_checks) ==
    tensor_size_loop(shape, 1, 1, overflow_checks)

(***************************************************************************)
(* Results of to_dimensions.                                               *)
(***************************************************************************)
DimOk(v) ==
    [tag |-> "Ok", code |-> "", what |-> "", index |-> 0, dims |-> v, sum |-> 0, expected |-> 0]
DimErrIndex(i) ==
    [tag |-> "Err", code |-> "InvalidArgument", what |-> "dimension", index |-> i,
     dims |-> <<>>, sum |-> 0, expected |-> 0]
DimErrSize(v, sum, expected) ==
    [tag |-> "Err", code |-> "InvalidArgument", what |-> "size", index |-> 0,
     dims |-> v, sum |-> sum, expected |-> expected]
DimErrScalar ==
    [tag |-> "Err", code |-> "InvalidArgument", what |-> "scalar", index |-> 0,
     dims |-> <<>>, sum |-> 0, expected |-> 1]
DimPanic ==
    [tag |-> "Panic", code |-> "", what |-> "overflow", index |-> 0,
     dims |-> <<>>, sum |-> 0, expected |-> 0]

\* The iterator of to_dimensions: collect::<Result<_>>() stops at the first
\* element that maps to Err.  Indices are those of enumerate(), from 0.
RECURSIVE last_invalid_dimension(_, _)
last_invalid_dimension(dims, i) ==
    IF i < 1 THEN -1
    ELSE IF ~(dims[i] >= 1) THEN i - 1
    ELSE last_invalid_dimension(dims, i - 1)

RECURSIVE first_invalid_from(_, _)
first_invalid_from(dims, i) ==
    IF i > Len(dims) THEN -1
    ELSE IF ~(dims[i] >= 1) THEN i - 1
    ELSE first_invalid_from(dims, i + 1)

first_invalid_scan_backwards(dims) == last_invalid_dimension(dims, Len(dims))

first_invalid_dimension(dims) == first_invalid_from(dims, 1)

\* impl_to_dimensions!(@inner)
to_dimensions(kind, dims, expected_size, overflow_checks) ==
    LET bad == first_invalid_dimension(dims)
        v == [i \in 1 .. Len(dims) |-> as_i64(kind, dims[i])]
        sum == calculate_tensor_size(v, overflow_checks)
    IN  IF bad >= 0 THEN DimErrIndex(bad)
        ELSE IF sum.panicked THEN DimPanic
        ELSE IF expected_size # None /\ sum.size # expected_size[1]
             THEN DimErrSize(v, sum.size, expected_size[1])
        ELSE DimOk(v)

\* impl ToDimensions for ()
to_dimensions_unit(expected_size) ==
    IF expected_size = None \/ expected_size = Some(1) THEN DimOk(<<>>) ELSE DimErrScalar

(***************************************************************************)
(* State.                                                                  *)
(***************************************************************************)
VARIABLES
    dimIn,          \* the arguments of the to_dimensions call under check
    dimOut,         \* its result, or <<>> before the call
    castIn,         \* the type descriptor and the target of the downcast under check
    castOut,        \* <<>>, or whether the downcast was accepted
    pc,             \* "start" before the constructor call, "done" after it
    input,          \* the data source handed to the constructor
    result,         \* <<>>, or the constructor's Result
    heap,           \* host buffers by address: state, contents, times freed
    callerHandles,  \* owning handles of the caller's buffer the caller holds
    inner,          \* <<>>, or the ValueInner behind the Arc
    innerSt,        \* "none", "live", "destroyed"
    strong,         \* the Arc's strong count
    aliases,        \* live wrappers of the inner, by type marker
    tied,           \* the wrapper's lifetime 'a is bounded by the input's
    handle,         \* the engine's OrtValue
    events,         \* engine calls and frees, in order
    strPc,          \* "start" before the from_string_array call, "done" after it
    strIn,          \* the string data source handed to from_string_array
    strOut,         \* <<>>, or from_string_array's Result
    strValue,       \* the engine's string tensor and the Value that owns it
    strCaller,      \* the caller's string buffer: "alive" or "freed"
    sysPc,          \* where the status under check is: "start", "boxed", "done", "panicked"
    sysIn,          \* the status a call returned: null, or an error's code and message
    sysBox,         \* the heap allocation behind the status pointer
    sysLog,         \* status entry points called, in order
    sysRes,         \* <<>>, or the Result of status_to_result
    sysReads,       \* what cast_from_sys and consume_sys have yielded, in order
    apiEnv,         \* the build (features, panic strategy, MINOR_VERSION) and the engine found
    apiCell,        \* G_ORT_API: the OnceLock and what it holds
    apiLib,         \* G_ORT_LIB: whether the library is loaded
    apiThreads,     \* each thread's position in its api() call, and its calls so far
    apiLog,         \* what the initialization has done: loads, handshake, warnings
    apiRuns,        \* executions of the initialization closure begun
    apiProcess,     \* "running" or "aborted"
    pathOs,         \* the target_os the crate is built for
    pathVar,        \* the ORT_DYLIB_PATH entry of the process environment
    pathCell,       \* G_ORT_DYLIB_PATH: <<>>, or the path it holds
    pathSeen,       \* <<>>, or the entry as it was when the cell was filled
    pathOut,        \* <<>>, or what the last dylib_path call returned
    pathCalls,      \* calls of dylib_path so far
    accTensor,      \* the tensor whose data is accessed
    accOut,         \* <<>>, or the outcome of the last access
    accLog,         \* engine calls made by the accesses, in order
    accOps          \* accesses so far

dimVars == <<dimIn, dimOut>>
castVars == <<castIn, castOut>>
valueVars == <<pc, input, result, heap, callerHandles, inner, innerSt, strong,
               aliases, tied, handle, events>>
strVars == <<strPc, strIn, strOut, strValue, strCaller>>
sysVars == <<sysPc, sysIn, sysBox, sysLog, sysRes, sysReads>>
apiVars == <<apiEnv, apiCell, apiLib, apiThreads, apiLog, apiRuns, apiProcess>>
pathVars == <<pathOs, pathVar, pathCell, pathSeen, pathOut, pathCalls>>
accVars == <<accTensor, accOut, accLog, accOps>>
otherVars == <<strVars, sysVars, apiVars, pathVars, accVars>>
vars == <<dimIn, dimOut, castIn, castOut, pc, input, result, heap, callerHandles, inner, innerSt,
          strong, aliases, tied, handle, events, strPc, strIn, strOut, strValue, strCaller,
          sysPc, sysIn, sysBox, sysLog, sysRes, sysReads,
          apiEnv, apiCell, apiLib, apiThreads, apiLog, apiRuns, apiProcess,
          pathOs, pathVar, pathCell, pathSeen, pathOut, pathCalls,
          accTensor, accOut, accLog, accOps>>

\* The string tensor before construction.
NoStringValue ==
    [handle |-> "none", strings |-> <<>>, wrapped |-> FALSE, releases |-> 0,
     dtype |-> <<>>, drop |-> FALSE, backing |-> <<>>]

StrAtRest ==
    /\ strPc = "idle"
    /\ strIn = <<>>
    /\ strOut = <<>>
    /\ strValue = NoStringValue
    /\ strCaller = "alive"

\* No status pointer allocated.
NoBox == [st |-> "none", error |-> <<>>, consumes |-> 0, frees |-> 0, stale |-> 0]

SysAtRest ==
    /\ sysPc = "idle"
    /\ sysIn = <<>>
    /\ sysBox = NoBox
    /\ sysLog = <<>>
    /\ sysRes = <<>>
    /\ sysReads = <<>>

\* G_ORT_API before any call.
EmptyCell == [st |-> "empty", value |-> <<>>]

ApiAtRest ==
    /\ apiEnv = <<>>
    /\ apiCell = EmptyCell
    /\ apiLib = "empty"
    /\ apiThreads = <<>>
    /\ apiLog = {}
    /\ apiRuns = 0
    /\ apiProcess = "running"

PathAtRest ==
    /\ pathOs = ""
    /\ pathVar = <<>>
    /\ pathCell = <<>>
    /\ pathSeen = <<>>
    /\ pathOut = <<>>
    /\ pathCalls = 0

AccAtRest ==
    /\ accTensor = <<>>
    /\ accOut = <<>>
    /\ accLog = <<>>
    /\ accOps = 0

OthersAtRest == StrAtRest /\ SysAtRest /\ ApiAtRest /\ PathAtRest /\ AccAtRest

(***************************************************************************)
(* Data sources (the TensorArrayData / OwnedTensorArrayData impls).        *)
(* A host buffer is named by its address: "caller" is the buffer the       *)
(* caller built the input over, "copy" is a buffer the conversion          *)
(* allocates.  A guard is an Option of the address whose buffer it owns.   *)
(***************************************************************************)
Addrs == {"caller", "copy"}
ElemTypes == {"Float32", "Int64"}
Elems == {1, 2}

OwnedForms == {"vec", "box", "array"}
ViewForms == {"slice", "slice_mut", "box", "arc_box", "arc_array", "cow_ref",
              "array_ref", "array_view", "array_view_mut"}
ViewMutForms == {"slice_mut", "array_view_mut"}
\* (shape, data) tuples, whose shape goes through to_dimensions
TupleForms == {"vec", "box", "slice", "slice_mut", "arc_box"}
\* inputs that are references with a lifetime
BorrowedForms == {"slice", "slice_mut", "cow_ref", "array_ref", "array_view", "array_view_mut"}
\* inputs that are one handle of an atomically reference-counted buffer
SharedForms == {"arc_box", "arc_array"}

Err(code, what) ==
    [tag |-> "Err", code |-> code, what |-> what, index |-> 0, dims |-> <<>>,
     sum |-> 0, expected |-> 0]

RECURSIVE Reverse(_)
Reverse(s) == IF s = <<>> THEN <<>> ELSE Append(Reverse(Tail(s)), Head(s))

\* What lies in the caller's buffer, in memory order.  An array that is not
\* in standard layout is modelled as a reversed (negative stride) view.
MemoryOrder(i) == IF i.contiguous THEN i.data ELSE Reverse(i.data)

\* The shape of a (shape, data) tuple, validated against the data's length.
tuple_shape(i) ==
    IF i.kind = "unit" THEN to_dimensions_unit(Some(Len(i.data)))
    ELSE to_dimensions(i.kind, i.dims, Some(Len(i.data)), i.overflow_checks)

\* self.shape().iter().map(|d| *d as i64).collect()
ndarray_shape(i) == DimOk([k \in 1 .. Len(i.dims) |-> as_i64("usize", i.dims[k])])

NonContiguous == Err("GenericFailure", "non-contiguous")

Parts(res, addr, len, guard, copied) ==
    [res |-> res, addr |-> addr, len |-> len, guard |-> guard, copied |-> copied]

\* A guard that takes a copy of the data instead of the caller's buffer.
into_parts_copying(i) ==
    IF i.form \in {"vec", "box"}
    THEN Parts(tuple_shape(i), "copy", Len(i.data), Some("copy"), TRUE)
    ELSE Parts(ndarray_shape(i), "copy", Len(i.data), Some("copy"), TRUE)

\* OwnedTensorArrayData::into_parts for (D, Vec<T>), (D, Box<[T]>), Array<T, D>
into_parts(i) ==
    IF i.form \in {"vec", "box"}
    THEN Parts(tuple_shape(i), "caller", Len(i.data), Some("caller"), FALSE)
    ELSE IF i.contiguous
         THEN Parts(ndarray_shape(i), "caller", Len(i.data), Some("caller"), FALSE)
         ELSE Parts(ndarray_shape(i), "copy", Len(i.data), Some("copy"), TRUE)

\* ref_parts that anchors nothing, for every form.
ref_parts_unanchored(i) ==
    IF i.form \in TupleForms THEN Parts(tuple_shape(i), "caller", Len(i.data), None, FALSE)
    ELSE IF i.contiguous THEN Parts(ndarray_shape(i), "caller", Len(i.data), None, FALSE)
    ELSE Parts(NonContiguous, "caller", 0, None, FALSE)

\* TensorArrayData::ref_parts
ref_parts(i) ==
    IF i.form \in TupleForms
    THEN Parts(tuple_shape(i), "caller", Len(i.data),
               IF i.form = "arc_box" THEN Some("caller") ELSE None, FALSE)
    ELSE IF i.contiguous
         THEN Parts(ndarray_shape(i), "caller", Len(i.data),
                    IF i.form = "arc_array" THEN Some("caller") ELSE None, FALSE)
         ELSE Parts(NonContiguous, "caller", 0, None, FALSE)

\* TensorArrayDataMut::ref_parts_mut
ref_parts_mut(i) ==
    IF i.form = "slice_mut" THEN Parts(tuple_shape(i), "caller", Len(i.data), None, FALSE)
    ELSE IF i.contiguous THEN Parts(ndarray_shape(i), "caller", Len(i.data), None, FALSE)
    ELSE Parts(NonContiguous, "caller", 0, None, FALSE)

(***************************************************************************)
(* Inputs of the constructors.                                             *)
(***************************************************************************)
\* Largest dimension a caller of a constructor asks for.
MaxDim == 3
\* Most handles of a shared buffer the caller keeps for itself.
MaxCallerArcs == 2
\* Most wrappers of one ValueInner alive at once.
MaxAliases == 3

ShapeChoices(kind) ==
    SeqsUpTo({d \in DimRange(kind) : d >= -1 /\ d <= MaxDim}, MaxRank)

DataInputs == SeqsUpTo(Elems, MaxLen)

RECURSIVE MathProduct(_)
MathProduct(dims) == IF dims = <<>> THEN 1 ELSE Head(dims) * MathProduct(Tail(dims))

Extra(form) == IF form \in SharedForms THEN 0 .. MaxCallerArcs ELSE {0}

TupleInputs(ctor, forms) ==
    UNION {[ctor : {ctor}, form : {f}, ty : ElemTypes, kind : {k}, dims : ShapeChoices(k),
            data : DataInputs, contiguous : {TRUE}, overflow_checks : BOOLEAN,
            extra : Extra(f), allocator : {"CPU"}]
           : f \in forms \cap TupleForms, k \in DimKinds}

\* An array of fewer than two elements is in standard layout whatever its
\* strides.
Layouts(data) == IF Len(data) >= 2 THEN BOOLEAN ELSE {TRUE}

\* An ndarray carries its own shape, which always matches its data.
NdarrayInputs(ctor, forms) ==
    UNION {[ctor : {ctor}, form : {f}, ty : ElemTypes, kind : {"usize"},
            dims : {d \in ShapeChoices("usize") : MathProduct(d) = Len(data)},
            data : {data}, contiguous : Layouts(data), overflow_checks : BOOLEAN,
            extra : Extra(f), allocator : {"CPU"}]
           : f \in forms \ TupleForms, data \in DataInputs}

OwnedInputs ==
    TupleInputs("from_array", OwnedForms) \cup NdarrayInputs("from_array", OwnedForms)
ViewInputs ==
    TupleInputs("from_array_view", ViewForms) \cup NdarrayInputs("from_array_view", ViewForms)
ViewMutInputs ==
    TupleInputs("from_array_view_mut", ViewMutForms)
    \cup NdarrayInputs("from_array_view_mut", ViewMutForms)
NewInputs ==
    UNION {[ctor : {"new"}, form : {"new"}, ty : ElemTypes, kind : {k}, dims : ShapeChoices(k),
            data : {<<>>}, contiguous : {TRUE}, overflow_checks : BOOLEAN,
            extra : {0}, allocator : {"CPU", "CUDA"}] : k \in DimKinds}

\* from_raw takes a MemoryInfo, a pointer and a Vec<i64> of any content.
RawInputs ==
    [ctor : {"from_raw"}, form : {"raw"}, ty : ElemTypes, kind : {"i64"},
     dims : ShapeChoices("i64"), data : {<<>>}, contiguous : {TRUE},
     overflow_checks : BOOLEAN, extra : {0}, allocator : {"CPU", "CUDA"},
     data_ptr : {"null", "device"}]

NoInput ==
    [ctor |-> "none", form |-> "none", ty |-> "Float32", kind |-> "usize", dims |-> <<>>, data |-> <<>>,
     contiguous |-> TRUE, overflow_checks |-> FALSE, extra |-> 0, allocator |-> "CPU"]

\* Owning handles of the caller's buffer the caller still holds once the
\* input has been moved into the call: a borrowed input leaves the caller its
\* buffer, an owned input leaves nothing, a shared input leaves the other
\* handles.
CallerKeeps(i) == IF i.form \in BorrowedForms THEN 1 ELSE i.extra

(***************************************************************************)
(* The engine: one OrtValue, made by a Create* entry point.  A call        *)
(* returns a handle ("ok"), a failure status ("status"), or a null status  *)
(* with the out-pointer left null ("null").                                *)
(***************************************************************************)
Outcomes == {"ok", "status", "null"}

NoHandle == [st |-> "none", releases |-> 0, shape |-> <<>>, addr |-> "none", len |-> 0]
LiveHandle(shape, addr, len) ==
    [st |-> "live", releases |-> 0, shape |-> shape, addr |-> addr, len |-> len]

\* What a creation call leaves in its out-pointer: the new OrtValue when it
\* succeeded, and the null the binding put there otherwise.
Created(outcome, h) == IF outcome = "ok" THEN h ELSE NoHandle

\* OrtApi::ReleaseValue
ReleaseValue(h) == [h EXCEPT !.st = "released", !.releases = @ + 1]

Ok == [tag |-> "Ok", code |-> "", what |-> "", index |-> 0, dims |-> <<>>,
       sum |-> 0, expected |-> 0]

\* The macro without its nonNull clause.
ortsys_result_unchecked(method, outcome) ==
    IF outcome = "status" THEN Err("EngineFailure", method) ELSE Ok

\* status_to_result, then assert_non_null_pointer, as ortsys![...?; nonNull(..)]
\* chains them.
ortsys_result(method, outcome) ==
    IF outcome = "status" THEN Err("EngineFailure", method)
    ELSE IF outcome = "null" THEN Err("GenericFailure", method)
    ELSE Ok

(***************************************************************************)
(* ValueInner, as the constructors' struct literals fill it.               *)
(***************************************************************************)
MemoryInfo(device) == [device |-> device, cpu_accessible |-> device = "CPU"]

\* A descriptor whose dimension_symbols were left empty.
TensorType_without_symbols(ty, shape) ==
    [kind |-> "Tensor", ty |-> ty, dimensions |-> shape, dimension_symbols |-> <<>>]

TensorType(ty, shape) ==
    [kind |-> "Tensor", ty |-> ty, dimensions |-> shape,
     dimension_symbols |-> [k \in 1 .. Len(shape) |-> None]]

ValueInner(ptr, dtype, drop, memory_info, backing) ==
    [ptr |-> ptr, dtype |-> dtype, drop |-> drop, memory_info |-> memory_info,
     backing |-> backing]

\* A Value whose literal forgets the guard, which is then dropped on return.
inner_without_backing(i, parts) ==
    ValueInner("ort_value", TensorType(i.ty, parts.res.dims), TRUE, MemoryInfo("CPU"), None)

\* Tensor::from_array, the Value literal
from_array_inner(i, parts) ==
    ValueInner("ort_value", TensorType(i.ty, parts.res.dims), TRUE, MemoryInfo("CPU"),
               parts.guard)

\* TensorRef::from_array_view, the Tensor literal
from_array_view_inner(i, parts) ==
    ValueInner("ort_value", TensorType(i.ty, parts.res.dims), TRUE, MemoryInfo("CPU"),
               parts.guard)

\* TensorRefMut::from_array_view_mut, the Tensor literal
from_array_view_mut_inner(i, parts) ==
    ValueInner("ort_value", TensorType(i.ty, parts.res.dims), TRUE, MemoryInfo("CPU"),
               parts.guard)

\* Tensor::new, the Value literal
new_inner(i, shape) ==
    ValueInner("ort_value", TensorType(i.ty, shape), TRUE, MemoryInfo(i.allocator), None)

\* The signature of from_array_view bounds the input by the lifetime 'a of the
\* TensorRef<'a, T> it returns: a borrowed input stays borrowed while the
\* TensorRef lives.
from_array_view_lifetime(i) == i.form \in BorrowedForms

\* The signature of from_array_view_mut puts no bound between the input and
\* the lifetime 'a of the TensorRefMut<'a, T> it returns.
from_array_view_mut_lifetime(i) == FALSE

(***************************************************************************)
(* The host heap.                                                          *)
(***************************************************************************)
Unallocated == [st |-> "unalloc", data |-> <<>>, frees |-> 0]
HeapInit == [a \in Addrs |-> Unallocated]

Buffer(data, freed) ==
    [st |-> IF freed THEN "freed" ELSE "alive", data |-> data,
     frees |-> IF freed THEN 1 ELSE 0]

Free(hp, a) == [hp EXCEPT ![a].st = "freed", ![a].frees = @ + 1]

\* The heap when a constructor returns.  The input was moved into the call:
\* what it owned is dropped on return unless the guard took it, and a guard
\* that the returned Value does not store as its _backing is dropped too.
HeapAtReturn(i, parts, backing) ==
    LET made == parts.copied /\ parts.res.tag = "Ok"
    IN  [a \in Addrs |->
            IF a = "caller"
            THEN Buffer(MemoryOrder(i), CallerKeeps(i) = 0 /\ backing # Some("caller"))
            ELSE IF made THEN Buffer(i.data, backing # Some("copy"))
            ELSE Unallocated]

FreesOf(hp) ==
    (IF hp["copy"].st = "freed" THEN <<"free:copy">> ELSE <<>>)
    \o (IF hp["caller"].st = "freed" THEN <<"free:caller">> ELSE <<>>)

(***************************************************************************)
(* The constructors.                                                       *)
(***************************************************************************)
Return(i, res, built, hp, is_tied, evs, h) ==
    /\ pc' = "done"
    /\ input' = i
    /\ result' = <<res>>
    /\ heap' = hp
    /\ callerHandles' = IF i.form = "new" THEN 0 ELSE CallerKeeps(i)
    /\ inner' = IF res.tag = "Ok"
                THEN <<[built EXCEPT !.ptr = IF h.st = "live" THEN @ ELSE "null"]>>
                ELSE <<>>
    /\ innerSt' = IF res.tag = "Ok" THEN "live" ELSE "none"
    /\ strong' = IF res.tag = "Ok" THEN 1 ELSE 0
    /\ aliases' = [typed |-> IF res.tag = "Ok" THEN 1 ELSE 0, dyn |-> 0]
    /\ tied' = (res.tag = "Ok" /\ is_tied)
    /\ handle' = IF res.tag = "Ok" THEN h ELSE NoHandle
    /\ events' = evs
    /\ UNCHANGED <<dimVars, castVars, otherVars>>

\* The common body of from_array, from_array_view and from_array_view_mut:
\* MemoryInfo::new, the conversion of the input, the engine call, the Value.
\* (The data pointer of a Vec, a Box or a slice is never null, so
\* assert_non_null_pointer(tensor_values_ptr) passes.)
WithData(i, parts, outcome, built, is_tied, num_elements) ==
    LET early == parts.res.tag # "Ok"
        res == IF early THEN parts.res
               ELSE ortsys_result("CreateTensorWithDataAsOrtValue", outcome)
        backing == IF res.tag = "Ok" THEN built.backing ELSE None
        hp == HeapAtReturn(i, parts, backing)
        evs == <<"CreateMemoryInfo">>
               \o (IF early THEN <<>> ELSE <<"CreateTensorWithDataAsOrtValue">>)
               \o FreesOf(hp)
    IN  Return(i, res, built, hp, is_tied, evs,
               Created(outcome, LiveHandle(parts.res.dims, parts.addr, num_elements)))

\* Tensor::from_array
from_array(i, outcome) ==
    /\ pc = "start"
    /\ LET parts == into_parts(i)
       IN  WithData(i, parts, outcome, from_array_inner(i, parts), FALSE, parts.len)

\* TensorRef::from_array_view
from_array_view(i, outcome) ==
    /\ pc = "start"
    /\ LET parts == ref_parts(i)
       IN  WithData(i, parts, outcome, from_array_view_inner(i, parts),
                    from_array_view_lifetime(i),
                    calculate_tensor_size(parts.res.dims, i.overflow_checks).size)

\* TensorRefMut::from_array_view_mut
from_array_view_mut(i, outcome) ==
    /\ pc = "start"
    /\ LET parts == ref_parts_mut(i)
       IN  WithData(i, parts, outcome, from_array_view_mut_inner(i, parts),
                    from_array_view_mut_lifetime(i),
                    calculate_tensor_size(parts.res.dims, i.overflow_checks).size)

\* Tensor::new: the engine allocates the data itself.
Tensor_new(i, outcome) ==
    /\ pc = "start"
    /\ LET shape == to_dimensions(i.kind, i.dims, None, i.overflow_checks)
           early == shape.tag # "Ok"
           res == IF early THEN shape ELSE ortsys_result("CreateTensorAsOrtValue", outcome)
           evs == IF early THEN <<>> ELSE <<"CreateTensorAsOrtValue">>
       IN  Return(i, res, new_inner(i, shape.dims), HeapInit, FALSE, evs,
                  Created(outcome, LiveHandle(shape.dims, "engine", 0)))

\* std::mem::size_of::<T>()
size_of(ty) == IF ty = "Int64" THEN 8 ELSE 4

\* shape.iter().product::<i64>(): the running product in i64, which
\* overflows by panicking when the build has overflow checks and by wrapping
\* when it has not.
RECURSIVE product_i64(_, _, _, _)
product_i64(shape, i, acc, overflow_checks) ==
    IF i > Len(shape) THEN [panicked |-> FALSE, value |-> acc]
    ELSE LET p == acc * shape[i]
             wrapped == ((p - I64Min) % UsizeModulus) + I64Min
         IN  IF p # wrapped /\ overflow_checks THEN [panicked |-> TRUE, value |-> 0]
             ELSE product_i64(shape, i + 1, wrapped, overflow_checks)

\* `shape.iter().product::<i64>() as usize * std::mem::size_of::<T>()`
data_len(shape, ty, overflow_checks) ==
    LET product == product_i64(shape, 1, 1, overflow_checks)
        elements == product.value % UsizeModulus
        bytes == elements * size_of(ty)
    IN  IF product.panicked \/ (bytes > UsizeMax /\ overflow_checks)
        THEN [panicked |-> TRUE, len |-> 0]
        ELSE [panicked |-> FALSE, len |-> bytes % UsizeModulus]

\* TensorRefMut::from_raw, the Value literal
from_raw_inner(i) ==
    ValueInner("ort_value", TensorType(i.ty, i.dims), TRUE, MemoryInfo(i.allocator), None)

\* TensorRefMut::from_raw: the shape and the pointer go to the engine as
\* they are.
from_raw(i, outcome) ==
    /\ pc = "start"
    /\ LET len == data_len(i.dims, i.ty, i.overflow_checks)
           res == IF len.panicked THEN DimPanic
                  ELSE ortsys_result("CreateTensorWithDataAsOrtValue", outcome)
           evs == IF len.panicked THEN <<>> ELSE <<"CreateTensorWithDataAsOrtValue">>
       IN  Return(i, res, from_raw_inner(i), HeapInit, FALSE, evs,
                  Created(outcome, LiveHandle(i.dims, i.data_ptr, len.len)))

\* Value Core's construct, for a handle that a larger engine structure owns:
\* release_on_drop is false.
construct_borrowed(ty, shape) ==
    /\ pc = "start"
    /\ Return([NoInput EXCEPT !.ctor = "construct", !.form = "engine", !.ty = ty, !.dims = shape], Ok,
              ValueInner("ort_value", TensorType(ty, shape), FALSE, MemoryInfo("CPU"), None),
              HeapInit, FALSE, <<>>, LiveHandle(shape, "engine", 0))

(***************************************************************************)
(* Aliasing.  The wrappers of one inner share an Arc: `a` is the Arc's     *)
(* strong count, the wrappers alive by marker, and the inner itself.       *)
(***************************************************************************)
ArcState == [strong |-> strong, aliases |-> aliases, inner |-> inner]
Total(al) == al.typed + al.dyn

\* An upcast that clones the Arc and forgets self.
upcast_by_clone(a) ==
    [a EXCEPT !.strong = @ + 1, !.aliases = [typed |-> @.typed - 1, dyn |-> @.dyn + 1]]

\* Tensor::upcast: transmute(self)
upcast(a) == [a EXCEPT !.aliases = [typed |-> @.typed - 1, dyn |-> @.dyn + 1]]

\* A reference wrapper made over the same inner without Arc::clone.
upcast_ref_without_clone(a) == [a EXCEPT !.aliases.dyn = @ + 1]

\* Tensor::upcast_ref: Arc::clone(&self.inner) in a new wrapper
upcast_ref(a) == [a EXCEPT !.strong = @ + 1, !.aliases.dyn = @ + 1]

\* Tensor::upcast_mut: Arc::clone(&self.inner) in a new wrapper
upcast_mut(a) == [a EXCEPT !.strong = @ + 1, !.aliases.dyn = @ + 1]

\* Value::clone: Arc::clone of the inner, same marker
clone(a, m) == [a EXCEPT !.strong = @ + 1, !.aliases[m] = @ + 1]

SetArc(a) ==
    /\ strong' = a.strong
    /\ aliases' = a.aliases
    /\ inner' = a.inner
    /\ UNCHANGED <<pc, input, result, heap, callerHandles, innerSt, tied, handle, events>>
    /\ UNCHANGED <<dimVars, castVars, otherVars>>

Upcast ==
    /\ innerSt = "live" /\ aliases.typed > 0
    /\ SetArc(upcast(ArcState))

UpcastRef ==
    /\ innerSt = "live" /\ aliases.typed > 0 /\ Total(aliases) < MaxAliases
    /\ SetArc(upcast_ref(ArcState))

UpcastMut ==
    /\ innerSt = "live" /\ aliases.typed > 0 /\ Total(aliases) < MaxAliases
    /\ SetArc(upcast_mut(ArcState))

Clone ==
    /\ innerSt = "live" /\ Total(aliases) < MaxAliases
    /\ \E m \in {"typed", "dyn"} : aliases[m] > 0 /\ SetArc(clone(ArcState, m))

(***************************************************************************)
(* Drop.  Dropping a wrapper drops its Arc; the drop that takes the strong *)
(* count to zero runs ValueInner's drop, then drops ValueInner's fields.   *)
(***************************************************************************)
\* impl Drop for ValueInner, followed by the drop of the _backing field
value_inner_drop(v, h, hp, keep, evs) ==
    LET h2 == IF v.drop THEN ReleaseValue(h) ELSE h
        e2 == IF v.drop THEN Append(evs, "ReleaseValue") ELSE evs
        last == v.backing # None /\ (v.backing = Some("copy") \/ keep = 0)
    IN  [handle |-> h2,
         heap |-> IF last THEN Free(hp, v.backing[1]) ELSE hp,
         events |-> IF v.backing = None THEN e2
                    ELSE Append(e2, "drop(_backing)")
                         \o (IF last THEN <<"free:" \o v.backing[1]>> ELSE <<>>)]

DropValue(m) ==
    /\ innerSt = "live" /\ aliases[m] > 0 /\ strong > 0
    /\ aliases' = [aliases EXCEPT ![m] = @ - 1]
    /\ strong' = strong - 1
    /\ IF strong = 1
       THEN LET d == value_inner_drop(inner[1], handle, heap, callerHandles, events)
            IN  /\ innerSt' = "destroyed"
                /\ handle' = d.handle
                /\ heap' = d.heap
                /\ events' = d.events
       ELSE UNCHANGED <<innerSt, handle, heap, events>>
    /\ UNCHANGED <<pc, input, result, callerHandles, inner, tied>>
    /\ UNCHANGED <<dimVars, castVars, otherVars>>

Drop == \E m \in {"typed", "dyn"} : DropValue(m)

(***************************************************************************)
(* The caller.  It may drop an owning handle of its buffer whenever the    *)
(* borrow checker lets it: not while a wrapper whose lifetime is bounded   *)
(* by the borrow of that buffer is alive.                                  *)
(***************************************************************************)
BorrowLive == tied /\ Total(aliases) > 0

Anchored(a) == innerSt = "live" /\ inner[1].backing = Some(a)

CallerDrop ==
    /\ pc = "done" /\ callerHandles > 0 /\ ~BorrowLive
    /\ callerHandles' = callerHandles - 1
    /\ IF callerHandles = 1 /\ ~Anchored("caller")
       THEN heap' = Free(heap, "caller") /\ events' = Append(events, "free:caller")
       ELSE UNCHANGED <<heap, events>>
    /\ UNCHANGED <<pc, input, result, inner, innerSt, strong, aliases, tied, handle>>
    /\ UNCHANGED <<dimVars, castVars, otherVars>>

(***************************************************************************)
(* Extraction.  Reading a tensor reads handle.len elements at the address  *)
(* the engine was given.  Reading a freed buffer is undefined behaviour:   *)
(* any data of any length, or no result at all.                            *)
(***************************************************************************)
Extracted(shape, data) == [ok |-> TRUE, shape |-> shape, data |-> data]

extract_raw_tensor ==
    IF handle.st # "live" \/ innerSt # "live"
    THEN {[ok |-> FALSE, shape |-> <<>>, data |-> <<>>]}
    ELSE IF handle.addr = "engine"
    THEN {Extracted(inner[1].dtype.dimensions, [k \in 1 .. handle.len |-> 0])}
    ELSE IF heap[handle.addr].st = "alive" /\ handle.len <= Len(heap[handle.addr].data)
    THEN {Extracted(inner[1].dtype.dimensions, SubSeq(heap[handle.addr].data, 1, handle.len))}
    ELSE {[ok |-> FALSE, shape |-> <<>>, data |-> <<>>]}
         \cup {Extracted(inner[1].dtype.dimensions, d) : d \in SeqsUpTo(Elems, MaxLen)}

(***************************************************************************)
(* The life of one Value.                                                  *)
(***************************************************************************)
DimIdle == [kind |-> "unit", dims |-> <<>>, expected |-> None, overflow_checks |-> FALSE]

CastIdle == [dtype |-> TensorType("Float32", <<>>), target |-> [marker |-> "DynTensor", ty |-> ""]]

DimsAtRest == dimIn = DimIdle /\ dimOut = <<>>
CastAtRest == castIn = CastIdle /\ castOut = <<>>
ValueAtRest ==
    /\ pc = "start"
    /\ input = NoInput
    /\ result = <<>>
    /\ heap = HeapInit
    /\ callerHandles = 0
    /\ inner = <<>>
    /\ innerSt = "none"
    /\ strong = 0
    /\ aliases = [typed |-> 0, dyn |-> 0]
    /\ tied = FALSE
    /\ handle = NoHandle
    /\ events = <<>>

Init == ValueAtRest /\ DimsAtRest /\ CastAtRest /\ OthersAtRest

FromArray ==
    /\ pc = "start"
    /\ \E i \in OwnedInputs, o \in Outcomes : from_array(i, o)
FromArrayView ==
    /\ pc = "start"
    /\ \E i \in ViewInputs, o \in Outcomes : from_array_view(i, o)
FromArrayViewMut ==
    /\ pc = "start"
    /\ \E i \in ViewMutInputs, o \in Outcomes : from_array_view_mut(i, o)
TensorNew ==
    /\ pc = "start"
    /\ \E i \in NewInputs, o \in Outcomes : Tensor_new(i, o)
FromRaw ==
    /\ pc = "start"
    /\ \E i \in RawInputs, o \in Outcomes : from_raw(i, o)
Construct ==
    /\ pc = "start"
    /\ \E ty \in ElemTypes, shape \in ShapeChoices("i64") :
        (\A k \in 1 .. Len(shape) : shape[k] >= 1) /\ construct_borrowed(ty, shape)

Next ==
    \/ FromArray
    \/ FromArrayView
    \/ FromArrayViewMut
    \/ TensorNew
    \/ FromRaw
    \/ Construct
    \/ Upcast
    \/ UpcastRef
    \/ UpcastMut
    \/ Clone
    \/ Drop
    \/ CallerDrop

Spec == Init /\ [][Next]_vars

(***************************************************************************)
(* Downcast: the check of the stored type descriptor against the target    *)
(* marker.                                                                 *)
(***************************************************************************)
TensorElementTypes == {"Float32", "Int64", "String"}

\* The type descriptors a Value can carry.
ValueTypes ==
    {TensorType(ty, shape) :
        ty \in TensorElementTypes,
        shape \in SeqsUpTo({d \in I64Min .. I64Max : d >= -1 /\ d <= MaxDim /\ d # 0}, MaxRank)}
    \cup {[kind |-> k, ty |-> "", dimensions |-> <<>>, dimension_symbols |-> <<>>]
          : k \in {"Sequence", "Map", "Unknown"}}

\* The markers a Value can be downcast to.
Targets ==
    {[marker |-> "DynTensor", ty |-> ""]}
    \cup {[marker |-> "Tensor", ty |-> ty] : ty \in TensorElementTypes}

\* A check that looks at the variant alone.
can_downcast_any_tensor(target, dtype) == dtype.kind = "Tensor"

\* DowncastableTarget::can_downcast for DynTensorValueType and TensorValueType<T>
can_downcast(target, dtype) ==
    IF target.marker = "DynTensor" THEN dtype.kind = "Tensor"
    ELSE IF dtype.kind = "Tensor" THEN dtype.ty = target.ty
    ELSE FALSE

(***************************************************************************)
(* Shape validation as a state machine: any shape of any supported integer *)
(* type, any expected size, either build profile.                          *)
(***************************************************************************)
ExpectedSizes == {None} \cup {Some(n) : n \in 0 .. MaxLen}

DimInputs ==
    [kind : {"unit"}, dims : {<<>>}, expected : ExpectedSizes, overflow_checks : {FALSE}]
    \cup UNION {[kind : {k}, dims : SeqsUpTo(DimRange(k), MaxRank),
                 expected : ExpectedSizes, overflow_checks : BOOLEAN] : k \in DimKinds}

InitDims ==
    /\ dimIn \in DimInputs
    /\ dimOut = <<>>
    /\ ValueAtRest
    /\ CastAtRest
    /\ OthersAtRest

ToDimensions ==
    /\ dimOut = <<>>
    /\ dimIn.kind # "unit"
    /\ dimOut' = <<to_dimensions(dimIn.kind, dimIn.dims, dimIn.expected, dimIn.overflow_checks)>>
    /\ UNCHANGED <<dimIn, valueVars, castVars, otherVars>>

ToDimensionsUnit ==
    /\ dimOut = <<>>
    /\ dimIn.kind = "unit"
    /\ dimOut' = <<to_dimensions_unit(dimIn.expected)>>
    /\ UNCHANGED <<dimIn, valueVars, castVars, otherVars>>

NextDims == ToDimensions \/ ToDimensionsUnit

SpecDims == InitDims /\ [][NextDims]_vars

(***************************************************************************)
(* The downcast check as a state machine: any descriptor, any target.      *)
(***************************************************************************)
InitCast ==
    /\ castIn \in [dtype : ValueTypes, target : Targets]
    /\ castOut = <<>>
    /\ ValueAtRest
    /\ DimsAtRest
    /\ OthersAtRest

\* Value::downcast: accepted exactly when can_downcast says so.
Downcast ==
    /\ castOut = <<>>
    /\ castOut' = <<can_downcast(castIn.target, castIn.dtype)>>
    /\ UNCHANGED <<castIn, valueVars, dimVars, otherVars>>

NextCast == Downcast

SpecCast == InitCast /\ [][NextCast]_vars

(***************************************************************************)
(* String tensors: Tensor::from_string_array.  A string is its sequence of *)
(* UTF-8 bytes: 0 is NUL, 1 stands for an ASCII byte, 2 for a byte of a    *)
(* multi-byte character.                                                   *)
(***************************************************************************)
MaxStrings == 2

Strings == {<<>>, <<1>>, <<2>>, <<1, 2>>, <<2, 2, 1>>, <<0>>, <<1, 0>>, <<1, 0, 2>>}

\* the TensorArrayData impls from_string_array is exercised with
StringForms == {"slice", "box", "arc_box", "array_view", "array_ref"}

\* ffi::CString::new: the bytes with a terminating NUL, or NulError when a
\* byte of the input is NUL
CString_new(s) ==
    IF \E k \in 1 .. Len(s) : s[k] = 0
    THEN [tag |-> "Err", bytes |-> <<>>]
    ELSE [tag |-> "Ok", bytes |-> Append(s, 0)]

\* How the engine reads a `const char*`: the bytes before the first NUL.
RECURSIVE c_str_read(_)
c_str_read(b) ==
    IF b = <<>> \/ Head(b) = 0 THEN <<>> ELSE <<Head(b)>> \o c_str_read(Tail(b))

\* OrtApi::FillStringTensor: the engine stores a copy of each C string.
FillStringTensor(pointers) == [k \in 1 .. Len(pointers) |-> c_str_read(pointers[k])]

StringShapes(data) == {<<Len(data)>>, <<1, Len(data)>>, <<Len(data) + 1>>, <<0, Len(data)>>}

StringInputs ==
    UNION {
        [form : {"slice", "box", "arc_box"}, kind : {"i64"}, dims : StringShapes(d),
         data : {d}, contiguous : {TRUE}, overflow_checks : {FALSE},
         create : Outcomes, fill : {"ok", "status"}]
        \cup
        [form : {"array_view", "array_ref"}, kind : {"usize"}, dims : {<<Len(d)>>},
         data : {d}, contiguous : Layouts(d), overflow_checks : {FALSE},
         create : Outcomes, fill : {"ok", "status"}]
        : d \in SeqsUpTo(Strings, MaxStrings)}

StringValue(h, strings, wrapped, shape) ==
    [handle |-> h, strings |-> strings, wrapped |-> wrapped, releases |-> 0,
     dtype |-> IF wrapped THEN <<TensorType("String", shape)>> ELSE <<>>,
     drop |-> wrapped, backing |-> None]

\* Tensor::from_string_array: the Result and what it leaves in the engine.
from_string_array(i) ==
    LET parts == ref_parts(i)
        created == ortsys_result("CreateTensorAsOrtValue", i.create)
        null_terminated_copies == [k \in 1 .. Len(i.data) |-> CString_new(i.data[k])]
        nul == \E k \in 1 .. Len(i.data) : null_terminated_copies[k].tag = "Err"
        string_pointers == [k \in 1 .. Len(i.data) |-> null_terminated_copies[k].bytes]
        filled == ortsys_result("FillStringTensor", i.fill)
        value_ptr == IF i.create = "ok" THEN "live" ELSE "null"
    IN  IF parts.res.tag # "Ok" THEN [res |-> parts.res, value |-> NoStringValue]
        ELSE IF created.tag # "Ok" THEN [res |-> created, value |-> NoStringValue]
        ELSE IF nul
        THEN [res |-> Err("GenericFailure", "NulError"),
              value |-> StringValue(value_ptr, <<>>, FALSE, parts.res.dims)]
        ELSE IF filled.tag # "Ok"
        THEN [res |-> filled, value |-> StringValue(value_ptr, <<>>, FALSE, parts.res.dims)]
        ELSE [res |-> Ok,
              value |-> StringValue(value_ptr, FillStringTensor(string_pointers), TRUE,
                                    parts.res.dims)]

\* Value::try_extract_raw_string_tensor: the shape of the descriptor and the
\* strings the engine holds.
try_extract_raw_string_tensor ==
    IF strValue.wrapped /\ strValue.handle = "live"
    THEN [ok |-> TRUE, shape |-> strValue.dtype[1].dimensions, data |-> strValue.strings]
    ELSE [ok |-> FALSE, shape |-> <<>>, data |-> <<>>]

InitString ==
    /\ strPc = "start"
    /\ strIn \in StringInputs
    /\ strOut = <<>>
    /\ strValue = NoStringValue
    /\ strCaller = "alive"
    /\ ValueAtRest
    /\ DimsAtRest
    /\ CastAtRest
    /\ SysAtRest
    /\ ApiAtRest
    /\ PathAtRest
    /\ AccAtRest

FromStringArray ==
    /\ strPc = "start"
    /\ LET r == from_string_array(strIn)
       IN  /\ strOut' = <<r.res>>
           /\ strValue' = r.value
    /\ strPc' = "done"
    \* the input was moved into the call: a Box<[T]> is dropped on return
    /\ strCaller' = IF strIn.form = "box" THEN "freed" ELSE "alive"
    /\ UNCHANGED <<strIn, valueVars, dimVars, castVars, sysVars, apiVars, pathVars, accVars>>

\* The caller drops or reuses its strings; a Tensor<String> borrows nothing.
StringCallerDrop ==
    /\ strPc = "done"
    /\ strCaller = "alive"
    /\ strCaller' = "freed"
    /\ UNCHANGED <<strPc, strIn, strOut, strValue, valueVars, dimVars, castVars, sysVars, apiVars, pathVars, accVars>>

\* The drop of the Tensor<String>: ReleaseValue, as drop is true.
StringDrop ==
    /\ strPc = "done"
    /\ strValue.wrapped
    /\ strValue' = [strValue EXCEPT !.wrapped = FALSE, !.handle = "released",
                                    !.releases = @ + 1]
    /\ UNCHANGED <<strPc, strIn, strOut, strCaller, valueVars, dimVars, castVars, sysVars, apiVars, pathVars, accVars>>

NextString == FromStringArray \/ StringCallerDrop \/ StringDrop

SpecString == InitString /\ [][NextString]_vars

(***************************************************************************)
(* Statuses.  A call reports failure by a status pointer.  A host-side     *)
(* implementation makes one by boxing an Error (into_sys); the status      *)
(* entry points read it (cast_from_sys) and release it (consume_sys).      *)
(***************************************************************************)
MaxCasts == 2

ErrorCodes == {"ORT_FAIL", "ORT_INVALID_ARGUMENT", "ORT_NOT_IMPLEMENTED"}
Messages == Strings

StatusInputs ==
    {[origin |-> "null", code |-> "", message |-> <<>>]}
    \cup [origin : {"host"}, code : ErrorCodes, message : Messages]

\* Error::new: CString::new(message.into()).unwrap()
Error_new(code, text) ==
    LET c == CString_new(text)
    IN  IF c.tag = "Err" THEN [tag |-> "Panic", code |-> code, message |-> <<>>]
        ELSE [tag |-> "Ok", code |-> code, message |-> c.bytes]

\* Error::message: self.message.as_c_str().to_str().unwrap()
message(e) == c_str_read(e.message)

\* The code and the message text of an Error.
ErrorView(e) == [code |-> e.code, message |-> message(e)]

\* Error::into_sys: Box::leak(Box::new(self)), cast to *mut OrtStatus
into_sys(e) == [NoBox EXCEPT !.st = "alive", !.error = <<e>>]

\* Error::cast_from_sys: &*ptr.cast::<Error>()
cast_from_sys(box) ==
    [box |-> IF box.st = "alive" THEN box ELSE [box EXCEPT !.stale = @ + 1],
     error |-> box.error]

\* A reclaim that leaves the allocation with the pointer.
consume_sys_borrowing(box) == [box |-> box, error |-> box.error]

\* Error::consume_sys: Box::from_raw(ptr.cast::<Error>())
consume_sys(box) ==
    [box |-> IF box.st = "alive" THEN [box EXCEPT !.st = "owned", !.consumes = @ + 1]
             ELSE [box EXCEPT !.consumes = @ + 1, !.stale = @ + 1],
     error |-> box.error]

\* The drop of the Box<Error> that consume_sys returned.
drop_box(box) == IF box.st = "owned" THEN [box EXCEPT !.st = "freed", !.frees = @ + 1] ELSE box

\* The status entry points, over a boxed Error.
GetErrorCode(box) ==
    LET r == cast_from_sys(box) IN [box |-> r.box, value |-> r.error[1].code]
GetErrorMessage(box) ==
    LET r == cast_from_sys(box) IN [box |-> r.box, value |-> message(r.error[1])]
ReleaseStatus(box) == drop_box(consume_sys(box).box)

StatusOk == [tag |-> "Ok", code |-> "", message |-> <<>>]
StatusErr(code, text) == [tag |-> "Err", code |-> code, message |-> text]

\* status_to_result that releases the status before reading it.
status_to_result_release_first(status, box) ==
    IF status.origin = "null" THEN [res |-> StatusOk, box |-> box, log |-> <<>>]
    ELSE LET released == ReleaseStatus(box)
             code == GetErrorCode(released)
             text == GetErrorMessage(code.box)
         IN  [res |-> StatusErr(code.value, text.value),
              box |-> text.box,
              log |-> <<"ReleaseStatus", "GetErrorCode", "GetErrorMessage">>]

\* status_to_result: null is success; otherwise read the code and the
\* message, release the status, return the Error.
status_to_result(status, box) ==
    IF status.origin = "null" THEN [res |-> StatusOk, box |-> box, log |-> <<>>]
    ELSE LET code == GetErrorCode(box)
             text == GetErrorMessage(code.box)
         IN  [res |-> StatusErr(code.value, text.value),
              box |-> ReleaseStatus(text.box),
              log |-> <<"GetErrorCode", "GetErrorMessage", "ReleaseStatus">>]

InitStatus ==
    /\ sysPc = "start"
    /\ sysIn \in StatusInputs
    /\ sysBox = NoBox
    /\ sysLog = <<>>
    /\ sysRes = <<>>
    /\ sysReads = <<>>
    /\ ValueAtRest
    /\ DimsAtRest
    /\ CastAtRest
    /\ StrAtRest
    /\ ApiAtRest
    /\ PathAtRest
    /\ AccAtRest

\* A host-side implementation reports an error: Error::new(..).into_sys()
IntoSys ==
    /\ sysPc = "start"
    /\ sysIn.origin = "host"
    /\ LET e == Error_new(sysIn.code, sysIn.message)
       IN  IF e.tag = "Panic"
           THEN sysPc' = "panicked" /\ sysBox' = sysBox
           ELSE sysPc' = "boxed" /\ sysBox' = into_sys(e)
    /\ UNCHANGED <<sysIn, sysLog, sysRes, sysReads, valueVars, dimVars, castVars, strVars, apiVars, pathVars, accVars>>

CastFromSys ==
    /\ sysPc = "boxed"
    /\ Len(sysReads) < MaxCasts
    /\ LET r == cast_from_sys(sysBox)
       IN  /\ sysBox' = r.box
           /\ sysReads' = Append(sysReads, ErrorView(r.error[1]))
    /\ UNCHANGED <<sysPc, sysIn, sysLog, sysRes, valueVars, dimVars, castVars, strVars, apiVars, pathVars, accVars>>

\* The reclaiming side takes the Error back, reads it and drops it.
ConsumeSys ==
    /\ sysPc = "boxed"
    /\ LET r == consume_sys(sysBox)
       IN  /\ sysBox' = drop_box(r.box)
           /\ sysReads' = Append(sysReads, ErrorView(r.error[1]))
    /\ sysPc' = "done"
    /\ UNCHANGED <<sysIn, sysLog, sysRes, valueVars, dimVars, castVars, strVars, apiVars, pathVars, accVars>>

StatusToResult ==
    /\ \/ sysPc = "start" /\ sysIn.origin = "null"
       \/ sysPc = "boxed"
    /\ LET r == status_to_result(sysIn, sysBox)
       IN  /\ sysRes' = <<r.res>>
           /\ sysBox' = r.box
           /\ sysLog' = sysLog \o r.log
    /\ sysPc' = "done"
    /\ UNCHANGED <<sysIn, sysReads, valueVars, dimVars, castVars, strVars, apiVars, pathVars, accVars>>

NextStatus == IntoSys \/ CastFromSys \/ ConsumeSys \/ StatusToResult

SpecStatus == InitStatus /\ [][NextStatus]_vars

(***************************************************************************)
(* The entry-point table: api(), over the OnceLock G_ORT_API.  A version   *)
(* string is the sequence of its dot-separated components; a component is  *)
(* decimal digits, digits after a plus sign, or something else (digits     *)
(* followed by other text, as in "2rc"); val is the number its digits      *)
(* spell.                                                                  *)
(***************************************************************************)
NumThreads == 2
MaxCalls == 2
MaxMinor == 2

Threads == 1 .. NumThreads

Component(kind, val) == [kind |-> kind, val |-> val]

Components ==
    {Component("digits", n) : n \in 0 .. MaxMinor + 1}
    \cup {Component("plus", MaxMinor), Component("other", MaxMinor)}

VersionStrings ==
    {<<Component("digits", 1)>>}
    \cup {<<Component("digits", 1), c>> : c \in Components}
    \cup {<<Component("digits", 1), c, Component("digits", 0)>> : c \in Components}

\* A parse that stops at the first character that is no digit, as atoi does.
parse_leading_digits(c) == c.val

\* x.parse::<u32>().unwrap_or(0)
parse_u32(c) == IF c.kind \in {"digits", "plus"} THEN c.val ELSE 0

\* The first component taken for the minor version.
lib_major_version(version_string) == parse_u32(version_string[1])

\* version_string.split('.').nth(1).map_or(0, |x| x.parse::<u32>().unwrap_or(0))
lib_minor_version(version_string) ==
    IF Len(version_string) >= 2 THEN parse_u32(version_string[2]) ELSE 0

\* A comparison the other way round.
cmp_reversed(a, b) == IF b < a THEN "Less" ELSE IF b > a THEN "Greater" ELSE "Equal"

\* lib_minor_version.cmp(&MINOR_VERSION)
cmp(a, b) == IF a < b THEN "Less" ELSE IF a > b THEN "Greater" ELSE "Equal"

\* The build (features, panic strategy, MINOR_VERSION) and the engine that
\* is there to be found.
ApiEnvs ==
    [load_dynamic : BOOLEAN, panic_abort : BOOLEAN, MINOR_VERSION : 1 .. MaxMinor,
     loads : BOOLEAN, version_string : VersionStrings, api_null : BOOLEAN]

\* lib_handle: G_ORT_LIB.get_or_init(|| .. Library::new(..).unwrap_or_else(panic))
lib_handle(env, lib) ==
    IF lib = "loaded" THEN [panic |-> FALSE, lib |-> lib, log |-> {}]
    ELSE [panic |-> ~env.loads, lib |-> IF env.loads THEN "loaded" ELSE "empty",
          log |-> {"Library::new"}]

\* The closure api() hands to G_ORT_API.get_or_init.
api_init(env, lib) ==
    IF env.load_dynamic
    THEN LET dylib == lib_handle(env, lib)
             lib_minor == lib_minor_version(env.version_string)
             ordering == cmp(lib_minor, env.MINOR_VERSION)
             read == dylib.log \cup {"OrtGetApiBase", "GetVersionString"}
         IN  IF dylib.panic THEN [panic |-> TRUE, lib |-> dylib.lib, log |-> dylib.log]
             ELSE IF ordering = "Less" THEN [panic |-> TRUE, lib |-> dylib.lib, log |-> read]
             ELSE [panic |-> env.api_null, lib |-> dylib.lib,
                   log |-> read \cup {"GetApi"}
                           \cup (IF ordering = "Greater" THEN {"warn"} ELSE {})]
    ELSE [panic |-> env.api_null, lib |-> lib, log |-> {"OrtGetApiBase", "GetApi"}]

InitApi ==
    /\ apiEnv \in ApiEnvs
    /\ apiCell = EmptyCell
    /\ apiLib = "empty"
    /\ apiThreads = [t \in Threads |-> [pc |-> "idle", calls |-> 0, ret |-> <<>>]]
    /\ apiLog = {}
    /\ apiRuns = 0
    /\ apiProcess = "running"
    /\ ValueAtRest
    /\ DimsAtRest
    /\ CastAtRest
    /\ StrAtRest
    /\ SysAtRest
    /\ PathAtRest
    /\ AccAtRest

ApiFrame == UNCHANGED <<apiEnv, valueVars, dimVars, castVars, strVars, sysVars, pathVars, accVars>>

\* OnceLock::get_or_init when the cell is empty: this thread runs the closure.
BeginInit(t) ==
    /\ apiCell' = [st |-> "running", value |-> <<>>]
    /\ apiRuns' = apiRuns + 1
    /\ UNCHANGED <<apiLib, apiLog, apiProcess>>

\* A thread calls api().
ApiCall(t) ==
    /\ apiProcess = "running"
    /\ apiThreads[t].pc \in {"idle", "returned", "panicked"}
    /\ apiThreads[t].calls < MaxCalls
    /\ CASE apiCell.st = "set" ->
                /\ apiThreads' = [apiThreads EXCEPT ![t] =
                       [pc |-> "returned", calls |-> @.calls + 1, ret |-> apiCell.value]]
                /\ UNCHANGED <<apiCell, apiLib, apiLog, apiRuns, apiProcess>>
         [] apiCell.st = "empty" ->
                /\ apiThreads' = [apiThreads EXCEPT ![t] =
                       [pc |-> "init", calls |-> @.calls + 1, ret |-> <<>>]]
                /\ BeginInit(t)
         [] apiCell.st = "running" ->
                /\ apiThreads' = [apiThreads EXCEPT ![t] =
                       [pc |-> "waiting", calls |-> @.calls + 1, ret |-> <<>>]]
                /\ UNCHANGED <<apiCell, apiLib, apiLog, apiRuns, apiProcess>>
    /\ ApiFrame

\* The closure runs to its end: the cell is set, or the panic leaves the
\* cell empty and unwinds the caller, or aborts the process.
ApiInit(t) ==
    /\ apiProcess = "running"
    /\ apiThreads[t].pc = "init"
    /\ LET r == api_init(apiEnv, apiLib)
       IN  /\ apiLib' = r.lib
           /\ apiLog' = apiLog \cup r.log
           /\ apiCell' = IF r.panic THEN EmptyCell ELSE [st |-> "set", value |-> <<"OrtApi">>]
           /\ apiThreads' = [apiThreads EXCEPT ![t].pc = IF r.panic THEN "panicked" ELSE "returned",
                                               ![t].ret = IF r.panic THEN <<>> ELSE <<"OrtApi">>]
           /\ apiProcess' = IF r.panic /\ apiEnv.panic_abort THEN "aborted" ELSE "running"
    /\ UNCHANGED apiRuns
    /\ ApiFrame

\* A thread that waited on the OnceLock goes on: it takes the value, or,
\* the cell being empty again, runs the closure itself.
ApiWake(t) ==
    /\ apiProcess = "running"
    /\ apiThreads[t].pc = "waiting"
    /\ apiCell.st # "running"
    /\ IF apiCell.st = "set"
       THEN /\ apiThreads' = [apiThreads EXCEPT ![t].pc = "returned", ![t].ret = apiCell.value]
            /\ UNCHANGED <<apiCell, apiLib, apiLog, apiRuns, apiProcess>>
       ELSE /\ apiThreads' = [apiThreads EXCEPT ![t].pc = "init"]
            /\ BeginInit(t)
    /\ ApiFrame

Call == \E t \in Threads : ApiCall(t)
RunInit == \E t \in Threads : ApiInit(t)
Wake == \E t \in Threads : ApiWake(t)

NextApi == Call \/ RunInit \/ Wake

SpecApi == InitApi /\ [][NextApi]_vars

(***************************************************************************)
(* The path of the engine's dynamic library: dylib_path(), over the        *)
(* OnceLock G_ORT_DYLIB_PATH.  The value of an environment variable is a   *)
(* sequence of bytes; InvalidByte stands for a byte that is no UTF-8.      *)
(***************************************************************************)
MaxPathCalls == 2

InvalidByte == 2 ^ 8 - 1

TargetOs == {"windows", "linux", "android", "macos", "ios"}

\* The entry of the process environment: absent, or set to a text.
Unset == [set |-> FALSE, text |-> <<>>]
SetTo(text) == [set |-> TRUE, text |-> text]

VarTexts == {<<>>, <<1>>, <<1, 2>>, <<InvalidByte>>, <<1, InvalidByte>>}

VarStates == {Unset} \cup {SetTo(text) : text \in VarTexts}

\* std::env::var: Err(NotPresent), Err(NotUnicode(..)) or Ok(String)
env_var(v) ==
    IF ~v.set THEN [tag |-> "Err", what |-> "NotPresent", s |-> <<>>]
    ELSE IF \E k \in 1 .. Len(v.text) : v.text[k] = InvalidByte
         THEN [tag |-> "Err", what |-> "NotUnicode", s |-> <<>>]
    ELSE [tag |-> "Ok", what |-> "", s |-> v.text]

\* The platform's name of the library, by cfg(target_os).
default_name(os) ==
    CASE os = "windows" -> "onnxruntime.dll"
      [] os \in {"linux", "android"} -> "libonnxruntime.so"
      [] os \in {"macos", "ios"} -> "libonnxruntime.dylib"

\* A path that is the text of the variable, and one that is a default name.
PathOf(text) == [from |-> "env", text |-> text, name |-> ""]
DefaultPath(os) == [from |-> "default", text |-> <<>>, name |-> default_name(os)]

\* The closure dylib_path hands to G_ORT_DYLIB_PATH.get_or_init.
dylib_path_init(os, v) ==
    LET r == env_var(v)
    IN  IF r.tag = "Ok" /\ r.s # <<>> THEN PathOf(r.s) ELSE DefaultPath(os)

InitPath ==
    /\ pathOs \in TargetOs
    /\ pathVar \in VarStates
    /\ pathCell = <<>>
    /\ pathSeen = <<>>
    /\ pathOut = <<>>
    /\ pathCalls = 0
    /\ ValueAtRest
    /\ DimsAtRest
    /\ CastAtRest
    /\ StrAtRest
    /\ SysAtRest
    /\ ApiAtRest
    /\ AccAtRest

PathFrame == UNCHANGED <<pathOs, valueVars, dimVars, castVars, strVars, sysVars, apiVars, accVars>>

\* dylib_path(): the first call fills the cell, every call returns what the
\* cell holds.
DylibPath ==
    /\ pathOs # ""
    /\ pathCalls < MaxPathCalls
    /\ pathCalls' = pathCalls + 1
    /\ IF pathCell = <<>>
       THEN /\ pathCell' = <<dylib_path_init(pathOs, pathVar)>>
            /\ pathSeen' = <<pathVar>>
       ELSE UNCHANGED <<pathCell, pathSeen>>
    /\ pathOut' = pathCell'
    /\ UNCHANGED pathVar
    /\ PathFrame

\* The program, or a library in it, changes the environment.
SetVar ==
    /\ pathOs # ""
    /\ pathCalls < MaxPathCalls
    /\ \E v \in VarStates :
        /\ v # pathVar
        /\ pathVar' = v
    /\ UNCHANGED <<pathCell, pathSeen, pathOut, pathCalls>>
    /\ PathFrame

NextPath == DylibPath \/ SetVar

SpecPath == InitPath /\ [][NextPath]_vars

(***************************************************************************)
(* Access to a tensor's data: data_ptr, data_ptr_mut and the index         *)
(* operators.  What the engine does in a call is its status and the        *)
(* address it leaves in the out-pointer, which starts out null.            *)
(***************************************************************************)
MaxOps == 2

Devices == {"CPU", "CUDA"}

EngineReplies == [status : {"ok", "error"}, out : {"null", "buffer"}]

AccTensors == {[ty |-> ty, memory_info |-> MemoryInfo(d)] : ty \in ElemTypes, d \in Devices}

AccOk(ptr) == [tag |-> "Ok", code |-> "", what |-> "", ptr |-> ptr]
AccErr(code, what) == [tag |-> "Err", code |-> code, what |-> what, ptr |-> "none"]
AccPanic(what) == [tag |-> "Panic", code |-> "", what |-> what, ptr |-> "none"]
AccRef(ptr) == [tag |-> "Ref", code |-> "", what |-> "", ptr |-> ptr]

\* The pointer check made before the status is looked at.
ortsys_nonNull_first(method, reply) ==
    IF reply.out = "null" THEN AccErr("GenericFailure", method)
    ELSE IF reply.status # "ok" THEN AccErr("EngineFailure", method)
    ELSE AccOk(reply.out)

\* ortsys![unsafe M(..)?; nonNull(p)]: status_to_result(..)?, then
\* assert_non_null_pointer(p, "M")?
ortsys_nonNull(method, reply) ==
    IF reply.status # "ok" THEN AccErr("EngineFailure", method)
    ELSE IF reply.out = "null" THEN AccErr("GenericFailure", method)
    ELSE AccOk(reply.out)

\* ortsys![unsafe M(..).expect(e)]
ortsys_expect(reply, e) ==
    IF reply.status # "ok" THEN AccPanic(e) ELSE AccOk(reply.out)

\* Value::data_ptr_mut and Value::data_ptr: the engine call and the result.
data_ptr_mut(t, reply) ==
    [calls |-> <<"GetTensorMutableData">>,
     res |-> {ortsys_nonNull("GetTensorMutableData", reply)}]

data_ptr(t, reply) ==
    [calls |-> <<"GetTensorMutableData">>,
     res |-> {ortsys_nonNull("GetTensorMutableData", reply)}]

\* Indexing that goes to the engine whatever the device.
index_unchecked(t, reply) ==
    LET at == ortsys_expect(reply, "Failed to index tensor")
    IN  [calls |-> <<"TensorAt">>,
         res |-> IF at.tag = "Panic" THEN {at} ELSE {AccRef(at.ptr)}]

\* Index<[i64; N]> for Tensor<T>.  `&*out.cast::<T>()` on a null `out` is
\* undefined: the build may hand out the null reference or trap.
index(t, reply) ==
    IF ~t.memory_info.cpu_accessible
    THEN [calls |-> <<>>,
          res |-> {AccPanic("Cannot directly index a tensor which is not allocated on the CPU.")}]
    ELSE LET at == ortsys_expect(reply, "Failed to index tensor")
         IN  [calls |-> <<"TensorAt">>,
              res |-> IF at.tag = "Panic" THEN {at}
                      ELSE IF at.ptr = "null" THEN {AccRef("null"), AccPanic("null dereference")}
                      ELSE {AccRef(at.ptr)}]

\* IndexMut<[i64; N]> for Tensor<T>
index_mut(t, reply) ==
    IF ~t.memory_info.cpu_accessible
    THEN [calls |-> <<>>,
          res |-> {AccPanic("Cannot directly index a tensor which is not allocated on the CPU.")}]
    ELSE LET at == ortsys_expect(reply, "Failed to index tensor")
         IN  [calls |-> <<"TensorAt">>,
              res |-> IF at.tag = "Panic" THEN {at}
                      ELSE IF at.ptr = "null" THEN {AccRef("null"), AccPanic("null dereference")}
                      ELSE {AccRef(at.ptr)}]

InitAccess ==
    /\ accTensor \in AccTensors
    /\ accOut = <<>>
    /\ accLog = <<>>
    /\ accOps = 0
    /\ ValueAtRest
    /\ DimsAtRest
    /\ CastAtRest
    /\ StrAtRest
    /\ SysAtRest
    /\ ApiAtRest
    /\ PathAtRest

\* One access: its name, the engine's reply, what the access did.
Access(op, reply, did) ==
    /\ \E r \in did.res : accOut' = [op |-> op, reply |-> reply, calls |-> did.calls, res |-> r]
    /\ accLog' = accLog \o did.calls
    /\ accOps' = accOps + 1
    /\ UNCHANGED <<accTensor, valueVars, dimVars, castVars, strVars, sysVars, apiVars, pathVars>>

CanAccess == accTensor # <<>> /\ accOps < MaxOps

DataPtr == CanAccess /\ \E reply \in EngineReplies : Access("data_ptr", reply, data_ptr(accTensor, reply))

DataPtrMut ==
    CanAccess /\ \E reply \in EngineReplies : Access("data_ptr_mut", reply, data_ptr_mut(accTensor, reply))

Index == CanAccess /\ \E reply \in EngineReplies : Access("index", reply, index(accTensor, reply))

IndexMut ==
    CanAccess /\ \E reply \in EngineReplies : Access("index_mut", reply, index_mut(accTensor, reply))

NextAccess == DataPtr \/ DataPtrMut \/ Index \/ IndexMut

SpecAccess == InitAccess /\ [][NextAccess]_vars

(***************************************************************************)
(* Properties.                                                             *)
(***************************************************************************)
HasEvent(e) == \E k \in 1 .. Len(events) : events[k] = e

\* C1: the engine's release function is never invoked for the handle while a
\* wrapper of the Value is alive, and once the last wrapper is dropped it has
\* been invoked exactly once if release_on_drop is set and never otherwise,
\* whatever clones, upcasts and drops were made and in whatever order.
C1_ReleaseExactlyOnce ==
    /\ handle.releases <= 1
    /\ Total(aliases) > 0 => handle.releases = 0
    /\ (innerSt # "none" /\ Total(aliases) = 0) =>
           handle.releases = (IF inner[1].drop THEN 1 ELSE 0)

C1_Witness ==
    /\ innerSt = "destroyed"
    /\ inner[1].drop
    /\ handle.releases = 1
    /\ Total(aliases) = 0

\* C2: the backing anchor of a Value is not dropped, and the buffer it owns
\* not freed, while any wrapper of the Value is alive; when it is dropped,
\* the release call for the handle (if owed) has already been made.
AnchoredSource ==
    \/ input.ctor = "from_array"
    \/ input.ctor = "from_array_view" /\ input.form \in SharedForms

C2_AnchorOutlivesAliases ==
    /\ (AnchoredSource /\ Total(aliases) > 0) =>
           /\ heap[handle.addr].st = "alive"
           /\ ~HasEvent("drop(_backing)")
    /\ \A k \in 1 .. Len(events) :
           events[k] = "drop(_backing)" =>
               /\ Total(aliases) = 0
               /\ inner[1].drop => \E j \in 1 .. k - 1 : events[j] = "ReleaseValue"
               /\ \A j \in 1 .. k - 1 : events[j] # "free:" \o handle.addr

C2_Witness ==
    /\ innerSt = "destroyed"
    /\ events[Len(events) - 1] = "drop(_backing)"
    /\ events[Len(events) - 2] = "ReleaseValue"
    /\ heap[handle.addr].st = "freed"

\* C3: a downcast is accepted exactly when the stored descriptor is a Tensor
\* and, for the target Tensor<T>, its element type is T's, whatever its
\* dimensions; Sequence, Map and Unknown are rejected for both targets; no
\* engine call is made.
C3_DowncastChecksDescriptorOnly ==
    castOut # <<>> =>
        /\ castOut[1] = (/\ castIn.dtype.kind = "Tensor"
                         /\ castIn.target.marker = "Tensor" => castIn.dtype.ty = castIn.target.ty)
        /\ events = <<>>

C3_Witness ==
    /\ castOut = <<FALSE>>
    /\ castIn.target.marker = "Tensor"
    /\ castIn.dtype.kind = "Tensor"
    /\ castIn.dtype.dimensions # <<>>

\* C4: upcasting a Tensor<T> to DynTensor is always possible and changes
\* neither the inner (handle, type descriptor, release flag, memory info,
\* backing anchor) nor the shared reference count, and calls nothing.
UpcastStep ==
    /\ aliases'.typed = aliases.typed - 1
    /\ aliases'.dyn = aliases.dyn + 1

C4_UpcastChangesNothing ==
    /\ []((innerSt = "live" /\ aliases.typed > 0) => ENABLED Upcast)
    /\ [][UpcastStep =>
             /\ inner' = inner
             /\ strong' = strong
             /\ innerSt' = innerSt
             /\ handle' = handle
             /\ heap' = heap
             /\ events' = events]_vars

C4_Witness ==
    /\ innerSt = "live"
    /\ aliases = [typed |-> 0, dyn |-> 1]
    /\ strong = 1

\* C5: a constructor given a shape with some dimension < 1 fails with
\* InvalidArgument naming the index of the first such dimension, whether or
\* not the element count matches, and no engine call has created a handle.
ShapeGiven ==
    \/ input.ctor \in {"from_array", "from_array_view", "from_array_view_mut"}
       /\ input.form \in TupleForms
    \/ input.ctor = "new"

BadDims == {k \in 1 .. Len(input.dims) : input.dims[k] < 1}

C6_ProductDecidesValidation ==
    (/\ dimOut # <<>>
     /\ dimIn.kind # "unit"
     /\ dimIn.expected # None
     /\ \A k \in 1 .. Len(dimIn.dims) : dimIn.dims[k] >= 1) =>
        IF MathProduct(dimIn.dims) = dimIn.expected[1]
        THEN dimOut[1].tag = "Ok"
        ELSE dimOut[1] = DimErrSize(dimIn.dims, MathProduct(dimIn.dims), dimIn.expected[1])

\* C7: from_array on a Vec, a Box<[T]> or an owned array in standard layout
\* copies nothing: the engine is given the address of the caller's buffer,
\* that buffer is the Value's backing anchor, and it is freed once, when the
\* Value is destroyed and not before.
OwnedByValue ==
    /\ input.ctor = "from_array"
    /\ input.form \in {"vec", "box"} \/ input.contiguous

C7_OwnedBufferIsTheAnchor ==
    OwnedByValue =>
        /\ heap["caller"].frees <= 1
        /\ heap["copy"].st = "unalloc"
        /\ innerSt # "none" =>
               /\ handle.addr = "caller"
               /\ inner[1].backing = Some("caller")
               /\ heap["caller"].data = input.data
        /\ innerSt = "live" => heap["caller"].st = "alive"
        /\ innerSt = "destroyed" => heap["caller"].st = "freed"

C7_Witness ==
    /\ OwnedByValue
    /\ innerSt = "destroyed"
    /\ heap["caller"].frees = 1
    /\ Len(input.data) = MaxLen

\* C8: from_array_view on shared-owned data keeps a clone of the shared
\* handle as the backing anchor: the data stays alive and reads back equal to
\* the input while the tensor lives, also once the caller has dropped every
\* handle of its own.
SharedView == input.ctor = "from_array_view" /\ input.form \in SharedForms

C8_SharedBufferIsAnchored ==
    (SharedView /\ innerSt = "live") =>
        /\ inner[1].backing = Some("caller")
        /\ heap["caller"].st = "alive"
        /\ extract_raw_tensor = {Extracted(input.dims, input.data)}

C8_Witness ==
    /\ SharedView
    /\ innerSt = "live"
    /\ input.extra > 0
    /\ callerHandles = 0
    /\ Len(input.data) > 1

\* C9: a tensor built by from_array_view or from_array_view_mut over borrowed
\* contiguous data is never usable once the caller's buffer has been
\* released.
C9_BorrowedBufferOutlivesTensor ==
    (/\ input.ctor \in {"from_array_view", "from_array_view_mut"}
     /\ input.form \in {"slice", "slice_mut", "array_view", "array_view_mut"}
     /\ innerSt = "live"
     /\ Total(aliases) > 0) =>
        heap["caller"].st = "alive"

\* C10: for each raw input form (Vec<T>, Box<[T]>, Arc<Box<[T]>>, &[T]) with
\* a valid shape, extracting from the constructed tensor gives back the shape
\* and the elements of the input, in order.
C10_RawInputsRoundTrip ==
    (input.form \in {"vec", "box", "arc_box", "slice"} /\ innerSt = "live") =>
        extract_raw_tensor = {Extracted(input.dims, input.data)}

\* C11: construction from an array view that is not in contiguous layout
\* does not fail for the layout: when the engine accepts the tensor, the
\* elements have been copied to a new contiguous buffer, which is the
\* Value's backing anchor.
NonContiguousView ==
    /\ input.form \in {"array_view", "array_view_mut"}
    /\ ~input.contiguous

C11_NonContiguousViewIsCopied ==
    (pc = "done" /\ NonContiguousView) =>
        /\ result[1] # NonContiguous
        /\ result[1].tag = "Ok" =>
               /\ handle.addr = "copy"
               /\ inner[1].backing = Some("copy")
               /\ heap["copy"].data = input.data

\* C12: a tensor built from an ArrayView has a copy of its own of the data:
\* the engine is not given the address of the viewed array's buffer, and the
\* tensor reads back the elements of the view.
C12_ArrayViewIsCopied ==
    (input.ctor = "from_array_view" /\ input.form = "array_view" /\ innerSt = "live") =>
        /\ handle.addr = "copy"
        /\ inner[1].backing = Some("copy")
        /\ extract_raw_tensor = {Extracted(input.dims, input.data)}

\* C13: for a sequence of strings in any accepted form, in contiguous layout
\* and with a valid shape, when the engine accepts its two calls, from_string_array returns a tensor
\* with no backing anchor from which extraction gives back the shape and the
\* same strings in the same order, also after the input is gone.
ValidStringShape ==
    /\ \A k \in 1 .. Len(strIn.dims) : strIn.dims[k] >= 1
    /\ MathProduct(strIn.dims) = Len(strIn.data)

C13_StringsRoundTrip ==
    (/\ strPc = "done"
     /\ ValidStringShape
     /\ strIn.contiguous
     /\ strIn.create = "ok"
     /\ strIn.fill = "ok") =>
        /\ strOut[1].tag = "Ok"
        /\ strValue.wrapped =>
               /\ strValue.backing = None
               /\ try_extract_raw_string_tensor =
                      [ok |-> TRUE, shape |-> strIn.dims, data |-> strIn.data]

\* C14: status_to_result on a null status returns success and calls no
\* status entry point; on a non-null status it returns an Error with the
\* status's code and message, and has released the status exactly once,
\* after reading the code and the message.
C14_StatusToResult ==
    sysRes # <<>> =>
        IF sysIn.origin = "null"
        THEN sysRes[1] = StatusOk /\ sysLog = <<>> /\ sysBox = NoBox
        ELSE /\ sysRes[1] = StatusErr(sysIn.code, sysIn.message)
             /\ sysLog = <<"GetErrorCode", "GetErrorMessage", "ReleaseStatus">>
             /\ sysBox.frees = 1
             /\ sysBox.stale = 0

C14_Witness ==
    /\ sysRes # <<>>
    /\ sysIn.origin = "host"
    /\ Len(sysIn.message) = 3
    /\ sysRes[1].message = sysIn.message
    /\ sysBox.st = "freed"

\* C15: for every code and every message text, the Error made of them and
\* boxed with into_sys is read by cast_from_sys, and given back by
\* consume_sys, with that code and that message.
C15_ErrorRoundTrip ==
    (sysIn # <<>> /\ sysIn.origin = "host" /\ sysPc # "start") =>
        /\ sysPc # "panicked"
        /\ \A k \in 1 .. Len(sysReads) :
               sysReads[k] = [code |-> sysIn.code, message |-> sysIn.message]

WellFormedVersion ==
    /\ Len(apiEnv.version_string) >= 2
    /\ apiEnv.version_string[2].kind = "digits"

\* The minor version the engine reports.
EngineMinor == apiEnv.version_string[2].val

Returned(t) == apiThreads[t].ret # <<>>

\* C17: whatever the interleaving of the threads' calls to api(), the
\* initialization closure is executed once and no more, and every call that
\* returned yields the pointer held by the cell.
C17_OneInitialization ==
    /\ apiRuns <= 1
    /\ \A t \in Threads : Returned(t) => apiRuns = 1 /\ apiCell.st = "set" /\ apiThreads[t].ret = apiCell.value

\* C18: no step starts a second execution of the initialization closure, and
\* no step replaces or clears a pointer the cell holds.
C18_NoReinitialization ==
    [][/\ apiRuns' > apiRuns => apiRuns = 0
       /\ apiCell.st = "set" => apiCell' = apiCell]_vars

\* C19: with dynamic loading and an engine whose minor version is below
\* MINOR_VERSION, the function table is never requested, the cell is never
\* set, no call to api() has returned, and every finished execution of the
\* closure ended in the panic.
C19_OlderEngineIsFatal ==
    (apiEnv.load_dynamic /\ WellFormedVersion /\ EngineMinor < apiEnv.MINOR_VERSION)
        => /\ "GetApi" \notin apiLog
           /\ apiCell.st # "set"
           /\ \A t \in Threads : ~Returned(t) /\ apiThreads[t].pc # "returned"

C19_Witness ==
    /\ apiEnv.load_dynamic
    /\ WellFormedVersion
    /\ EngineMinor < apiEnv.MINOR_VERSION
    /\ "GetVersionString" \in apiLog
    /\ \E t \in Threads : apiThreads[t].pc = "panicked"

\* C20: with dynamic loading and an engine whose minor version is at least
\* MINOR_VERSION, once the version string has been read the function table
\* has been requested, the call returned unless the table was null, and the
\* warning was emitted exactly when the engine's minor version is greater.
C20_NewerEngineProceeds ==
    (apiEnv.load_dynamic /\ WellFormedVersion /\ EngineMinor >= apiEnv.MINOR_VERSION
     /\ "GetVersionString" \in apiLog)
        => /\ "GetApi" \in apiLog
           /\ "warn" \in apiLog <=> EngineMinor > apiEnv.MINOR_VERSION
           /\ ~apiEnv.api_null => apiCell.st = "set"

C20_Witness ==
    /\ apiEnv.load_dynamic
    /\ WellFormedVersion
    /\ EngineMinor > apiEnv.MINOR_VERSION
    /\ "warn" \in apiLog
    /\ "GetApi" \in apiLog
    /\ \E t \in Threads : Returned(t)


\* The path the variable's entry asks for: its value when it is set and not
\* empty, the platform's default name otherwise.
PathAskedFor(os, v) == IF v.set /\ v.text # <<>> THEN PathOf(v.text) ELSE DefaultPath(os)

\* C21: the dynamic library path is the value ORT_DYLIB_PATH had when the
\* path was resolved if it was set and not empty, the platform's default
\* library name if it was unset or empty, and every call returns that path.
C21_PathFromEnvironment ==
    pathCell # <<>> =>
        /\ pathCell[1] = PathAskedFor(pathOs, pathSeen[1])
        /\ pathOut = pathCell


Indexed == accOut # <<>> /\ accOut.op \in {"index", "index_mut"}

\* C22: indexing a tensor whose memory_info does not report host-accessible
\* memory ends in the panic of the device check, makes no TensorAt call, and
\* hands out no element reference.
C22_DeviceTensorIsNotIndexed ==
    (Indexed /\ ~accTensor.memory_info.cpu_accessible)
        => /\ accOut.res.tag = "Panic"
           /\ accOut.calls = <<>>
           /\ \A k \in 1 .. Len(accLog) : accLog[k] # "TensorAt"

C22_Witness ==
    /\ Indexed
    /\ accOut.op = "index_mut"
    /\ ~accTensor.memory_info.cpu_accessible
    /\ accOut.res.tag = "Panic"
    /\ accOps = MaxOps

PointerAsked == accOut # <<>> /\ accOut.op \in {"data_ptr", "data_ptr_mut"}

\* C23: data_ptr and data_ptr_mut return an error when the engine's status
\* is a failure or the address is left null, never a null address as
\* success, and the engine's status error when both happen.
C23_DataPtrNeverNull ==
    PointerAsked =>
        /\ (accOut.reply.status # "ok" \/ accOut.reply.out = "null") => accOut.res.tag = "Err"
        /\ accOut.res.tag = "Ok" => accOut.res.ptr = accOut.reply.out /\ accOut.res.ptr # "null"
        /\ accOut.reply.status # "ok" => accOut.res.code = "EngineFailure"
        /\ (accOut.reply.status = "ok" /\ accOut.reply.out # "null") => accOut.res.tag = "Ok"

C23_Witness ==
    /\ PointerAsked
    /\ accOut.reply.status # "ok"
    /\ accOut.reply.out = "null"
    /\ accOut.res = AccErr("EngineFailure", "GetTensorMutableData")


TensorConstructors ==
    {"new", "from_array", "from_array_view", "from_array_view_mut", "from_raw"}

Constructed == pc = "done" /\ input.ctor \in TensorConstructors

\* C24: a Value a tensor constructor returned has a handle that is not null
\* and that the engine did create; a constructor that returned an error, as
\* it does when the engine reports success and leaves the out-pointer null,
\* built no Value.  The same for the string tensor of from_string_array.
C24_HandleNeverNull ==
    /\ Constructed =>
        /\ result[1].tag = "Ok" => inner # <<>> /\ inner[1].ptr # "null" /\ handle.st # "none"
        /\ result[1].tag # "Ok" => inner = <<>> /\ strong = 0
    /\ strValue.wrapped => strValue.handle # "null"
    /\ (strOut # <<>> /\ strOut[1].tag # "Ok") => ~strValue.wrapped

C24_Witness ==
    /\ Constructed
    /\ input.ctor = "from_raw"
    /\ result[1] = Err("GenericFailure", "CreateTensorWithDataAsOrtValue")
    /\ inner = <<>>
    /\ handle.st = "none"

FromRawDone == pc = "done" /\ input.ctor = "from_raw"

\* C25: from_raw asks the engine for a tensor whatever the shape and the
\* pointer are, over product(shape) * size_of(T) bytes; what is not a success
\* is an error of the engine call; the Value has no backing anchor.
C25_FromRawAsksTheEngine ==
    FromRawDone =>
        /\ HasEvent("CreateTensorWithDataAsOrtValue")
        /\ result[1].tag # "Ok" =>
            /\ result[1].tag = "Err"
            /\ result[1].what = "CreateTensorWithDataAsOrtValue"
        /\ result[1].tag = "Ok" =>
            /\ handle.len = MathProduct(input.dims) * size_of(input.ty)
            /\ inner[1].backing = None


\* The descriptor of a tensor of element type ty created with a shape.
Describes(dtype, ty, shape) ==
    /\ dtype.kind = "Tensor"
    /\ dtype.ty = ty
    /\ dtype.dimensions = shape
    /\ Len(dtype.dimension_symbols) = Len(shape)
    /\ \A k \in 1 .. Len(shape) : dtype.dimension_symbols[k] = None

\* C26: the Value of every tensor constructor carries the descriptor
\* Tensor{element_type, dimensions, dimension_symbols} with T's element type
\* (String for from_string_array), the dimensions of the shape the tensor was
\* asked for and created with, and one None symbol per dimension.
C26_DescriptorRecorded ==
    /\ (Constructed /\ inner # <<>>) =>
        /\ Describes(inner[1].dtype, input.ty, handle.shape)
        /\ handle.shape = [k \in 1 .. Len(input.dims) |-> as_i64(input.kind, input.dims[k])]
    /\ strValue.wrapped =>
        Describes(strValue.dtype[1], "String",
                  [k \in 1 .. Len(strIn.dims) |-> as_i64(strIn.kind, strIn.dims[k])])

C26_Witness ==
    /\ Constructed
    /\ input.ctor = "from_array"
    /\ inner # <<>>
    /\ inner[1].dtype.ty = "Int64"
    /\ inner[1].dtype.dimension_symbols = <<None, None>>


\* from_string_array returned an error after the engine created the tensor.
FailedAfterCreate ==
    /\ strPc # "start"
    /\ strOut # <<>>
    /\ strOut[1].tag # "Ok"
    /\ strValue.handle # "none"

\* C27: when from_string_array returns an error after CreateTensorAsOrtValue
\* produced a handle, the handle has been released exactly once.
C27_FailedStringTensorReleased ==
    FailedAfterCreate => strValue.releases = 1


\* C28: when to_dimensions returns Ok for a shape of usize, i32 or i64
\* values, every dimension it returns is >= 1 and, if an element count was
\* given, their product as integers is that count.
C28_ReturnedDimensionsAreValid ==
    (dimOut # <<>> /\ dimIn.kind # "unit" /\ dimOut[1].tag = "Ok") =>
        /\ \A k \in 1 .. Len(dimOut[1].dims) : dimOut[1].dims[k] >= 1
        /\ dimIn.expected # None => MathProduct(dimOut[1].dims) = dimIn.expected[1]


\* The function table was never requested and no call to api() returned.
ResolutionFailed ==
    /\ "GetApi" \notin apiLog
    /\ apiCell.st # "set"
    /\ \A t \in Threads : ~Returned(t) /\ apiThreads[t].pc # "returned"

GateReached == apiEnv # <<>> /\ apiEnv.load_dynamic /\ "GetVersionString" \in apiLog

\* C29, as stated: with dynamic loading, a version string with no second
\* component, or with a second component that is not a string of decimal
\* digits, is taken as minor version 0, and resolution fails whenever
\* MINOR_VERSION is greater than 0.
C29_MalformedMinorIsZero ==
    (/\ GateReached
     /\ \/ Len(apiEnv.version_string) < 2
        \/ apiEnv.version_string[2].kind # "digits"
     /\ apiEnv.MINOR_VERSION > 0)
        => lib_minor_version(apiEnv.version_string) = 0 /\ ResolutionFailed

\* C29, amended: with dynamic loading, a version string with no second
\* component, or with a second component that u32::from_str rejects, is
\* taken as minor version 0, and resolution fails whenever MINOR_VERSION is
\* greater than 0.
C29_UnparsedMinorIsZero ==
    (/\ GateReached
     /\ \/ Len(apiEnv.version_string) < 2
        \/ apiEnv.version_string[2].kind = "other"
     /\ apiEnv.MINOR_VERSION > 0)
        => lib_minor_version(apiEnv.version_string) = 0 /\ ResolutionFailed

C29_Witness ==
    /\ GateReached
    /\ Len(apiEnv.version_string) = 3
    /\ apiEnv.version_string[2].kind = "other"
    /\ apiEnv.version_string[2].val >= apiEnv.MINOR_VERSION
    /\ apiRuns = 2
    /\ \A t \in Threads : apiThreads[t].pc = "panicked"

====
